---- MODULE Spec2Model ----
(***************************************************************************)
(* The recipe-and-ingredient catalogue: the Ingredient, Recipe and         *)
(* RecipeIngredient tables, the GraphQL mutations over them                *)
(* (apps/ingredients/mutations.py, apps/recipes/mutations.py), the list    *)
(* queries (apps/ingredients/queries.py, apps/recipes/queries.py) and the  *)
(* authenticated GraphQL view (core/urls.py).                              *)
(*                                                                         *)
(* A string is a sequence of one-character strings, so that strip(),       *)
(* lower() and the case-insensitive lookups are computed.  A quantity is   *)
(* an integer number of thousandths; the DecimalField column keeps two     *)
(* decimal places.  The columns no mutation reads back (description,       *)
(* instructions, cooking_time, the timestamps) are left out of the rows.   *)
(***************************************************************************)
EXTENDS Integers, Sequences, FiniteSets, TLC

VARIABLES ingredients, recipes, joins, response, clients, request

vars == <<ingredients, recipes, joins, response, clients, request>>
store == <<ingredients, recipes, joins>>

(***************************************************************************)
(* Bounds of the model.                                                    *)
(***************************************************************************)
MaxIngredientId == 2
MaxRecipeId == 2
MaxRowId == 2
MaxEntries == 2
NumClients == 2

(***************************************************************************)
(* Program constants.                                                      *)
(***************************************************************************)
IngredientNameMaxLength == 100
IngredientUnitMaxLength == 20
DecimalPlaces == 2

(***************************************************************************)
(* Strings.                                                                *)
(***************************************************************************)
IsSpace(c) == c \in {" ", "\t", "\n"}

RECURSIVE LStrip(_)
LStrip(s) == IF s = <<>> THEN s
             ELSE IF IsSpace(Head(s)) THEN LStrip(Tail(s)) ELSE s

RECURSIVE RStrip(_)
RStrip(s) == IF s = <<>> THEN s
             ELSE IF IsSpace(s[Len(s)]) THEN RStrip(SubSeq(s, 1, Len(s) - 1)) ELSE s

\* str.strip()
Strip(s) == RStrip(LStrip(s))

LowerChar(c) == CASE c = "A" -> "a"
                  [] c = "B" -> "b"
                  [] c = "G" -> "g"
                  [] c = "R" -> "r"
                  [] OTHER -> c

\* str.lower()
Lower(s) == [i \in 1..Len(s) |-> LowerChar(s[i])]

\* the name__iexact lookup's comparison
IExact(a, b) == Lower(a) = Lower(b)

(***************************************************************************)
(* Quantities: a float argument, in thousandths, and the value the         *)
(* DecimalField(max_digits=10, decimal_places=2) column keeps of it        *)
(* (quantized to two places, ties to even).                                *)
(***************************************************************************)
RECURSIVE Pow10(_)
Pow10(n) == IF n = 0 THEN 1 ELSE 10 * Pow10(n - 1)

QuantityScale == 3
QuantityUnit == Pow10(QuantityScale - DecimalPlaces)

Quantize(q) ==
  LET r == q % QuantityUnit
      base == q - r
  IN  IF 2 * r < QuantityUnit THEN base
      ELSE IF 2 * r > QuantityUnit THEN base + QuantityUnit
      ELSE IF (base \div QuantityUnit) % 2 = 0 THEN base ELSE base + QuantityUnit

(***************************************************************************)
(* Inputs.                                                                 *)
(***************************************************************************)
\* a name one character longer than the name column
LongName == [i \in 1..(IngredientNameMaxLength + 1) |-> "a"]

NameInputs == { <<" ">>, <<"a">>, <<"A", " ">>, <<"b">>, LongName }
UnitInputs == { <<" ">>, <<"G", " ">> }
RecipeNameInputs == { <<" ">>, <<"r">>, <<"R", " ">>, <<"s">> }

IngredientIds == 1..MaxIngredientId
RecipeIds == 1..MaxRecipeId

IngredientInput == [name : NameInputs, unit : UnitInputs]

\* RecipeIngredientInput and BulkUpdateRecipeIngredientInput: ingredient_id,
\* quantity (a float, here in thousandths), notes
Entry(i, q, n) == [ingredient_id |-> i, quantity |-> q, notes |-> n]
RecipeIngredientInput ==
  { Entry(1, 500, <<>>), Entry(1, 125, <<" ", "n">>) }
    \cup { Entry(i, 500, <<>>) : i \in IngredientIds \ {1} }

RECURSIVE SeqsUpTo(_, _)
SeqsUpTo(S, n) ==
  IF n = 0 THEN { <<>> }
  ELSE LET shorter == SeqsUpTo(S, n - 1)
       IN  shorter \cup { Append(s, x) : s \in shorter, x \in S }

EntryLists == SeqsUpTo(RecipeIngredientInput, MaxEntries)
RecipeInput == [name : RecipeNameInputs, ingredients : EntryLists]

(***************************************************************************)
(* The store: tables as sets of rows.                                      *)
(***************************************************************************)
Ids(table) == { row.id : row \in table }

SetMax(S) == CHOOSE m \in S : \A x \in S : x <= m

\* the primary key the engine gives a new row
NextId(table) == IF table = {} THEN 1 ELSE SetMax(Ids(table)) + 1

\* whether Model.objects.get(pk=id) finds a row (DoesNotExist otherwise)
HasPk(table, id) == id \in Ids(table)

\* queryset.exclude(pk=id)
Exclude(table, id) == { row \in table : row.id # id }

\* a CharField(unique=True) name column: the exact-match test of the unique
\* constraint, and of Model.validate_unique
NameTaken(rows, name) == \E row \in rows : row.name = name

\* queryset.filter(name__iexact=name).exists()
NameIExists(rows, name) == \E row \in rows : IExact(row.name, name)

\* lookups that compare the names as written
IngredientNameExists_CaseSensitive(rows, name) == \E row \in rows : row.name = name
RecipeNameExists_CaseSensitive(rows, name) == \E row \in rows : row.name = name

\* Ingredient.objects.filter(name__iexact=name).exists(), on all rows or on
\* the rows left by .exclude(pk=id)
IngredientNameExists(rows, name) == NameIExists(rows, name)

\* Recipe.objects.filter(name__iexact=name).exists()
RecipeNameExists(rows, name) == NameIExists(rows, name)

(***************************************************************************)
(* Responses.                                                              *)
(***************************************************************************)
Ok(op) == [op |-> op, success |-> TRUE, code |-> "", raised |-> FALSE, deleted |-> 0]
Error(op, code) ==
  [op |-> op, success |-> FALSE, code |-> code, raised |-> FALSE, deleted |-> 0]
\* an exception that no except clause of the resolver catches
Raised(op, exc) ==
  [op |-> op, success |-> FALSE, code |-> exc, raised |-> TRUE, deleted |-> 0]
Deleted(op, n) ==
  [op |-> op, success |-> TRUE, code |-> "", raised |-> FALSE, deleted |-> n]
NoResponse == Error("", "")

(***************************************************************************)
(* apps/ingredients: the Ingredient model and its mutations.               *)
(***************************************************************************)
\* the validation of a model whose name and unit may be blank
full_clean_BlankAllowed(others, name, unit) ==
  /\ Len(name) <= IngredientNameMaxLength
  /\ Len(unit) <= IngredientUnitMaxLength
  /\ ~NameTaken(others, name)

\* Model.full_clean(): clean_fields (blank and max_length of name and unit)
\* and validate_unique (name, against the rows other than the object's own)
full_clean(others, name, unit) ==
  /\ name # <<>> /\ Len(name) <= IngredientNameMaxLength
  /\ unit # <<>> /\ Len(unit) <= IngredientUnitMaxLength
  /\ ~NameTaken(others, name)

\* a foreign key that does not cascade
IngredientCascade_None(jns, id) == {}

\* the rows a cascading delete of ingredient id removes from RecipeIngredient
IngredientCascade(jns, id) == { row \in jns : row.ingredient = id }

\* a cascade that also takes the rows of the recipe's ingredients in other recipes
RecipeCascade_TooWide(jns, id) ==
  { row \in jns : \E mine \in jns : mine.recipe = id /\ mine.ingredient = row.ingredient }

\* the rows a cascading delete of recipe id removes from RecipeIngredient
RecipeCascade(jns, id) == { row \in jns : row.recipe = id }

Outcome(ings, recs, jns, resp) ==
  [ingredients |-> ings, recipes |-> recs, joins |-> jns, response |-> resp]

create_ingredient(ings, recs, jns, input) ==
  LET name == Strip(input.name)
      unit == Lower(Strip(input.unit))
      op == "create_ingredient"
  IN  IF name = <<>> \/ unit = <<>> THEN Outcome(ings, recs, jns, Error(op, "EMPTY_FIELD"))
      ELSE IF IngredientNameExists(ings, name)
        THEN Outcome(ings, recs, jns, Error(op, "DUPLICATE_NAME"))
      ELSE IF ~full_clean(ings, name, unit)
        THEN Outcome(ings, recs, jns, Error(op, "DATABASE_ERROR"))
      ELSE IF NameTaken(ings, name)
        THEN Outcome(ings, recs, jns, Error(op, "DATABASE_ERROR"))
      ELSE Outcome(ings \cup { [id |-> NextId(ings), name |-> name, unit |-> unit] },
                   recs, jns, Ok(op))

\* an update that looks the name up among all the ingredients, its own row
\* included
update_ingredient_NoExclude(ings, recs, jns, id, input) ==
  LET name == Strip(input.name)
      unit == Lower(Strip(input.unit))
      op == "update_ingredient"
  IN  IF ~HasPk(ings, id) THEN Outcome(ings, recs, jns, Error(op, "NOT_FOUND"))
      ELSE IF name = <<>> THEN Outcome(ings, recs, jns, Error(op, "EMPTY_NAME"))
      ELSE IF IngredientNameExists(ings, name)
        THEN Outcome(ings, recs, jns, Error(op, "DUPLICATE_NAME"))
      ELSE IF ~full_clean(Exclude(ings, id), name, unit)
        THEN Outcome(ings, recs, jns, Raised(op, "ValidationError"))
      ELSE Outcome(Exclude(ings, id) \cup { [id |-> id, name |-> name, unit |-> unit] },
                   recs, jns, Ok(op))

\* an update that saves the row before it looks for another ingredient of
\* the name
update_ingredient_SaveFirst(ings, recs, jns, id, input) ==
  LET name == Strip(input.name)
      unit == Lower(Strip(input.unit))
      op == "update_ingredient"
      saved == IF full_clean(Exclude(ings, id), name, unit)
                 THEN Exclude(ings, id) \cup { [id |-> id, name |-> name, unit |-> unit] }
               ELSE ings
  IN  IF ~HasPk(ings, id) THEN Outcome(ings, recs, jns, Error(op, "NOT_FOUND"))
      ELSE IF name = <<>> THEN Outcome(ings, recs, jns, Error(op, "EMPTY_NAME"))
      ELSE IF IngredientNameExists(Exclude(ings, id), name)
        THEN Outcome(saved, recs, jns, Error(op, "DUPLICATE_NAME"))
      ELSE IF ~full_clean(Exclude(ings, id), name, unit)
        THEN Outcome(ings, recs, jns, Raised(op, "ValidationError"))
      ELSE Outcome(saved, recs, jns, Ok(op))

update_ingredient(ings, recs, jns, id, input) ==
  LET name == Strip(input.name)
      unit == Lower(Strip(input.unit))
      op == "update_ingredient"
  IN  IF ~HasPk(ings, id) THEN Outcome(ings, recs, jns, Error(op, "NOT_FOUND"))
      ELSE IF name = <<>> THEN Outcome(ings, recs, jns, Error(op, "EMPTY_NAME"))
      ELSE IF IngredientNameExists(Exclude(ings, id), name)
        THEN Outcome(ings, recs, jns, Error(op, "DUPLICATE_NAME"))
      ELSE IF ~full_clean(Exclude(ings, id), name, unit)
        THEN Outcome(ings, recs, jns, Raised(op, "ValidationError"))
      ELSE IF NameTaken(Exclude(ings, id), name)
        THEN Outcome(ings, recs, jns, Raised(op, "IntegrityError"))
      ELSE Outcome(Exclude(ings, id) \cup { [id |-> id, name |-> name, unit |-> unit] },
                   recs, jns, Ok(op))

delete_ingredient(ings, recs, jns, id) ==
  LET op == "delete_ingredient"
  IN  IF ~HasPk(ings, id) THEN Outcome(ings, recs, jns, Error(op, "NOT_FOUND"))
      ELSE LET gone == IngredientCascade(jns, id)
           IN  Outcome(Exclude(ings, id), recs, jns \ gone,
                       Deleted(op, 1 + Cardinality(gone)))

(***************************************************************************)
(* apps/recipes: the Recipe and RecipeIngredient models and the mutations. *)
(***************************************************************************)
\* RecipeIngredient.objects.filter(recipe=recipe, ingredient=ingredient)
PairRows(jns, recipe, ingredient) ==
  { row \in jns : row.recipe = recipe /\ row.ingredient = ingredient }

\* a join table without the constraint
unique_together_Missing(jns, recipe, ingredient) == FALSE

\* RecipeIngredient.Meta.unique_together: whether the constraint refuses a
\* new row for the pair
unique_together(jns, recipe, ingredient) == PairRows(jns, recipe, ingredient) # {}

\* Recipe.ingredient_count: self.ingredients.count(), the rows of the join
\* table for the recipe
ingredient_count(jns, recipe) == Cardinality({ row \in jns : row.recipe = recipe })

\* a row that keeps the notes as they were given
NewRow_NotesAsGiven(jns, recipe, ingredient, quantity, notes) ==
  [id |-> NextId(jns), recipe |-> recipe, ingredient |-> ingredient,
   quantity |-> Quantize(quantity), notes |-> notes]

\* the row RecipeIngredient.objects.create(...) writes
NewRow(jns, recipe, ingredient, quantity, notes) ==
  [id |-> NextId(jns), recipe |-> recipe, ingredient |-> ingredient,
   quantity |-> Quantize(quantity), notes |-> Strip(notes)]

Step(raised, jns) == [raised |-> raised, joins |-> jns]

\* the loop of create_recipe over input.ingredients: the rows written so far
\* and the exception that ended it, if any
RECURSIVE AddIngredients(_, _, _, _)
AddIngredients(ings, jns, recipe, entries) ==
  IF entries = <<>> THEN Step("", jns)
  ELSE LET e == Head(entries)
       IN  IF ~HasPk(ings, e.ingredient_id) THEN Step("ValidationError", jns)
           ELSE IF unique_together(jns, recipe, e.ingredient_id)
             THEN Step("IntegrityError", jns)
           ELSE AddIngredients(
                  ings,
                  jns \cup { NewRow(jns, recipe, e.ingredient_id, e.quantity, e.notes) },
                  recipe, Tail(entries))

\* a block that is no transaction: what it wrote stays
transaction_atomic_NoRollback(before, after, raised) == after

\* with transaction.atomic(): what the block wrote is kept unless an
\* exception leaves the block
transaction_atomic(before, after, raised) == IF raised # "" THEN before ELSE after

create_recipe(ings, recs, jns, input) ==
  LET name == Strip(input.name)
      op == "create_recipe"
  IN  IF name = <<>> THEN Outcome(ings, recs, jns, Error(op, "EMPTY_NAME"))
      ELSE IF RecipeNameExists(recs, name)
        THEN Outcome(ings, recs, jns, Error(op, "DUPLICATE_NAME"))
      ELSE IF NameTaken(recs, name)
        THEN Outcome(ings, recs, jns, Error(op, "INTERNAL_ERROR"))
      ELSE LET recipe == NextId(recs)
               created == recs \cup { [id |-> recipe, name |-> name] }
               added == AddIngredients(ings, jns, recipe, input.ingredients)
               kept == transaction_atomic(<<recs, jns>>, <<created, added.joins>>,
                                          added.raised)
               resp == IF added.raised = "" THEN Ok(op)
                       ELSE IF added.raised = "ValidationError"
                         THEN Error(op, "VALIDATION_ERROR")
                       ELSE Error(op, "INTERNAL_ERROR")
           IN  Outcome(ings, kept[1], kept[2], resp)

add_one_ingredient_to_recipe(ings, recs, jns, recipe_id, ingredient_id, quantity, notes) ==
  LET op == "add_one_ingredient_to_recipe"
  IN  IF ~HasPk(recs, recipe_id) \/ ~HasPk(ings, ingredient_id)
        THEN Outcome(ings, recs, jns, Error(op, "NOT_FOUND"))
      ELSE IF PairRows(jns, recipe_id, ingredient_id) # {}
        THEN Outcome(ings, recs, jns, Error(op, "DUPLICATE_INGREDIENT"))
      ELSE IF unique_together(jns, recipe_id, ingredient_id)
        THEN Outcome(ings, recs, jns, Error(op, "INTERNAL_ERROR"))
      ELSE Outcome(ings, recs,
                   jns \cup { NewRow(jns, recipe_id, ingredient_id, quantity, notes) },
                   Ok(op))

\* queryset.first(): the row of the least primary key
First(rows) == CHOOSE row \in rows : \A other \in rows : row.id <= other.id

remove_one_ingredient_from_recipe(ings, recs, jns, recipe_id, ingredient_id) ==
  LET op == "remove_one_ingredient_from_recipe"
      rows == PairRows(jns, recipe_id, ingredient_id)
  IN  IF ~HasPk(recs, recipe_id) \/ ~HasPk(ings, ingredient_id)
        THEN Outcome(ings, recs, jns, Error(op, "NOT_FOUND"))
      ELSE IF rows = {} THEN Outcome(ings, recs, jns, Error(op, "NOT_FOUND"))
      ELSE Outcome(ings, recs, jns \ { First(rows) }, Deleted(op, 1))

delete_recipe(ings, recs, jns, recipe_id) ==
  LET op == "delete_recipe"
  IN  IF ~HasPk(recs, recipe_id) THEN Outcome(ings, recs, jns, Error(op, "NOT_FOUND"))
      ELSE LET gone == RecipeCascade(jns, recipe_id)
           IN  Outcome(ings, Exclude(recs, recipe_id), jns \ gone,
                       Deleted(op, 1 + Cardinality(gone)))

\* an upsert that leaves the notes of a row it finds as they were
update_or_create_QuantityOnly(jns, recipe, ingredient, quantity, notes) ==
  LET rows == PairRows(jns, recipe, ingredient)
  IN  IF rows = {}
        THEN Step("", jns \cup { NewRow(jns, recipe, ingredient, quantity, notes) })
      ELSE LET row == First(rows)
           IN  Step("", (jns \ { row }) \cup
                        { [row EXCEPT !.quantity = Quantize(quantity)] })

\* RecipeIngredient.objects.update_or_create(recipe=, ingredient=, defaults=):
\* the row of the pair takes the defaults, or a new row is written
update_or_create(jns, recipe, ingredient, quantity, notes) ==
  LET rows == PairRows(jns, recipe, ingredient)
  IN  IF Cardinality(rows) > 1 THEN Step("MultipleObjectsReturned", jns)
      ELSE IF rows = {}
        THEN Step("", jns \cup { NewRow(jns, recipe, ingredient, quantity, notes) })
      ELSE LET row == First(rows)
           IN  Step("", (jns \ { row }) \cup
                        { [row EXCEPT !.quantity = Quantize(quantity),
                                      !.notes = Strip(notes)] })

\* the loop of bulk_update_recipe_ingredients, outside any transaction
RECURSIVE BulkLoop(_, _, _, _)
BulkLoop(ings, jns, recipe, entries) ==
  IF entries = <<>> THEN Step("", jns)
  ELSE LET e == Head(entries)
       IN  IF ~HasPk(ings, e.ingredient_id) THEN Step("DoesNotExist", jns)
           ELSE LET done == update_or_create(jns, recipe, e.ingredient_id,
                                             e.quantity, e.notes)
                IN  IF done.raised # "" THEN done
                    ELSE BulkLoop(ings, done.joins, recipe, Tail(entries))

bulk_update_recipe_ingredients(ings, recs, jns, recipe_id, entries) ==
  LET op == "bulk_update_recipe_ingredients"
  IN  IF ~HasPk(recs, recipe_id) THEN Outcome(ings, recs, jns, Error(op, "NOT_FOUND"))
      ELSE LET done == BulkLoop(ings, jns, recipe_id, entries)
               resp == IF done.raised = "" THEN Ok(op)
                       ELSE IF done.raised = "DoesNotExist" THEN Error(op, "NOT_FOUND")
                       ELSE Error(op, "INTERNAL_ERROR")
           IN  Outcome(ings, recs, done.joins, resp)

(***************************************************************************)
(* The requests handled one after another: each action is one resolver     *)
(* call, from its arguments to its response.                               *)
(***************************************************************************)
WithinBounds(o) ==
  /\ \A row \in o.ingredients : row.id <= MaxIngredientId
  /\ \A row \in o.recipes : row.id <= MaxRecipeId
  /\ \A row \in o.joins : row.id <= MaxRowId

Apply(o) ==
  /\ WithinBounds(o)
  /\ ingredients' = o.ingredients
  /\ recipes' = o.recipes
  /\ joins' = o.joins
  /\ response' = o.response

CreateIngredient(input) ==
  /\ Apply(create_ingredient(ingredients, recipes, joins, input))
  /\ UNCHANGED <<clients, request>>

UpdateIngredient(id, input) ==
  /\ Apply(update_ingredient(ingredients, recipes, joins, id, input))
  /\ UNCHANGED <<clients, request>>

DeleteIngredient(id) ==
  /\ Apply(delete_ingredient(ingredients, recipes, joins, id))
  /\ UNCHANGED <<clients, request>>

CreateRecipe(input) ==
  /\ Apply(create_recipe(ingredients, recipes, joins, input))
  /\ UNCHANGED <<clients, request>>

AddOneIngredientToRecipe(recipe_id, ingredient_id, quantity, notes) ==
  /\ Apply(add_one_ingredient_to_recipe(ingredients, recipes, joins,
                                        recipe_id, ingredient_id, quantity, notes))
  /\ UNCHANGED <<clients, request>>

RemoveOneIngredientFromRecipe(recipe_id, ingredient_id) ==
  /\ Apply(remove_one_ingredient_from_recipe(ingredients, recipes, joins,
                                             recipe_id, ingredient_id))
  /\ UNCHANGED <<clients, request>>

DeleteRecipe(recipe_id) ==
  /\ Apply(delete_recipe(ingredients, recipes, joins, recipe_id))
  /\ UNCHANGED <<clients, request>>

BulkUpdateRecipeIngredients(recipe_id, entries) ==
  /\ Apply(bulk_update_recipe_ingredients(ingredients, recipes, joins,
                                          recipe_id, entries))
  /\ UNCHANGED <<clients, request>>

Idle == [pc |-> "idle"]
NoRequest == [phase |-> "idle", auth |-> "", user |-> ""]

Init ==
  /\ ingredients = {}
  /\ recipes = {}
  /\ joins = {}
  /\ response = NoResponse
  /\ clients = [c \in 1..NumClients |-> Idle]
  /\ request = NoRequest

Next ==
  \/ \E input \in IngredientInput : CreateIngredient(input)
  \/ \E id \in IngredientIds, input \in IngredientInput : UpdateIngredient(id, input)
  \/ \E id \in IngredientIds : DeleteIngredient(id)
  \/ \E input \in RecipeInput : CreateRecipe(input)
  \/ \E r \in RecipeIds, e \in RecipeIngredientInput :
        AddOneIngredientToRecipe(r, e.ingredient_id, e.quantity, e.notes)
  \/ \E r \in RecipeIds, i \in IngredientIds : RemoveOneIngredientFromRecipe(r, i)
  \/ \E r \in RecipeIds : DeleteRecipe(r)
  \/ \E r \in RecipeIds, entries \in EntryLists : BulkUpdateRecipeIngredients(r, entries)

Spec == Init /\ [][Next]_vars

(***************************************************************************)
(* Requests of different clients interleaved (SpecConc).  Each query a     *)
(* resolver sends to the store is one step; a client sends one request.    *)
(* The store starts with one recipe, with or without an ingredient, and no *)
(* join row.                                                               *)
(***************************************************************************)
Clients == 1..NumClients

Finish(c, resp) == clients' = [clients EXCEPT ![c].pc = "done", ![c].result = resp]
Goto(c, pc) == clients' = [clients EXCEPT ![c].pc = pc]

CleanName(c) == Strip(clients[c].input.name)
CleanUnit(c) == Lower(Strip(clients[c].input.unit))

InvokeCreateIngredient(c, input) ==
  /\ clients[c].pc = "idle"
  /\ clients' = [clients EXCEPT ![c] =
       [pc |-> "ci_lookup", op |-> "create_ingredient", input |-> input,
        result |-> NoResponse]]
  /\ UNCHANGED <<store, response, request>>

\* create_ingredient, lines 17-38: the emptiness test and the iexact lookup
CreateIngredientLookup(c) ==
  /\ clients[c].pc = "ci_lookup"
  /\ IF CleanName(c) = <<>> \/ CleanUnit(c) = <<>>
       THEN Finish(c, Error("create_ingredient", "EMPTY_FIELD"))
     ELSE IF IngredientNameExists(ingredients, CleanName(c))
       THEN Finish(c, Error("create_ingredient", "DUPLICATE_NAME"))
     ELSE Goto(c, "ci_clean")
  /\ UNCHANGED <<store, response, request>>

\* create_ingredient, line 41: ingredient.full_clean()
CreateIngredientClean(c) ==
  /\ clients[c].pc = "ci_clean"
  /\ IF ~full_clean(ingredients, CleanName(c), CleanUnit(c))
       THEN Finish(c, Error("create_ingredient", "DATABASE_ERROR"))
     ELSE Goto(c, "ci_save")
  /\ UNCHANGED <<store, response, request>>

\* create_ingredient, lines 42-49: ingredient.save(), the INSERT
CreateIngredientSave(c) ==
  /\ clients[c].pc = "ci_save"
  /\ IF NameTaken(ingredients, CleanName(c))
       THEN /\ Finish(c, Error("create_ingredient", "DATABASE_ERROR"))
            /\ UNCHANGED ingredients
     ELSE /\ NextId(ingredients) <= MaxIngredientId
          /\ ingredients' = ingredients \cup
               { [id |-> NextId(ingredients), name |-> CleanName(c), unit |-> CleanUnit(c)] }
          /\ Finish(c, Ok("create_ingredient"))
  /\ UNCHANGED <<recipes, joins, response, request>>

InvokeUpdateIngredient(c, id, input) ==
  /\ clients[c].pc = "idle"
  /\ clients' = [clients EXCEPT ![c] =
       [pc |-> "ui_get", op |-> "update_ingredient", id |-> id, input |-> input,
        result |-> NoResponse]]
  /\ UNCHANGED <<store, response, request>>

\* update_ingredient, line 56: Ingredient.objects.get(pk=id)
UpdateIngredientGet(c) ==
  /\ clients[c].pc = "ui_get"
  /\ IF ~HasPk(ingredients, clients[c].id)
       THEN Finish(c, Error("update_ingredient", "NOT_FOUND"))
     ELSE Goto(c, "ui_lookup")
  /\ UNCHANGED <<store, response, request>>

\* update_ingredient, lines 57-77: the emptiness test and the iexact lookup
UpdateIngredientLookup(c) ==
  /\ clients[c].pc = "ui_lookup"
  /\ IF CleanName(c) = <<>>
       THEN Finish(c, Error("update_ingredient", "EMPTY_NAME"))
     ELSE IF IngredientNameExists(Exclude(ingredients, clients[c].id), CleanName(c))
       THEN Finish(c, Error("update_ingredient", "DUPLICATE_NAME"))
     ELSE Goto(c, "ui_clean")
  /\ UNCHANGED <<store, response, request>>

\* update_ingredient, line 84: ingredient.full_clean()
UpdateIngredientClean(c) ==
  /\ clients[c].pc = "ui_clean"
  /\ IF ~full_clean(Exclude(ingredients, clients[c].id), CleanName(c), CleanUnit(c))
       THEN Finish(c, Raised("update_ingredient", "ValidationError"))
     ELSE Goto(c, "ui_save")
  /\ UNCHANGED <<store, response, request>>

\* update_ingredient, lines 85-86: ingredient.save(), the UPDATE
UpdateIngredientSave(c) ==
  /\ clients[c].pc = "ui_save"
  /\ IF NameTaken(Exclude(ingredients, clients[c].id), CleanName(c))
       THEN /\ Finish(c, Raised("update_ingredient", "IntegrityError"))
            /\ UNCHANGED ingredients
     ELSE /\ ingredients' = Exclude(ingredients, clients[c].id) \cup
               { [id |-> clients[c].id, name |-> CleanName(c), unit |-> CleanUnit(c)] }
          /\ Finish(c, Ok("update_ingredient"))
  /\ UNCHANGED <<recipes, joins, response, request>>

InvokeAddOne(c, recipe_id, e) ==
  /\ clients[c].pc = "idle"
  /\ clients' = [clients EXCEPT ![c] =
       [pc |-> "ao_recipe", op |-> "add_one_ingredient_to_recipe",
        recipe_id |-> recipe_id, entry |-> e, result |-> NoResponse]]
  /\ UNCHANGED <<store, response, request>>

\* add_one_ingredient_to_recipe, line 86: Recipe.objects.get(pk=recipe_id)
AddOneGetRecipe(c) ==
  /\ clients[c].pc = "ao_recipe"
  /\ IF ~HasPk(recipes, clients[c].recipe_id)
       THEN Finish(c, Error("add_one_ingredient_to_recipe", "NOT_FOUND"))
     ELSE Goto(c, "ao_ingredient")
  /\ UNCHANGED <<store, response, request>>

\* line 87: Ingredient.objects.get(pk=ingredient_id)
AddOneGetIngredient(c) ==
  /\ clients[c].pc = "ao_ingredient"
  /\ IF ~HasPk(ingredients, clients[c].entry.ingredient_id)
       THEN Finish(c, Error("add_one_ingredient_to_recipe", "NOT_FOUND"))
     ELSE Goto(c, "ao_exists")
  /\ UNCHANGED <<store, response, request>>

\* lines 89-98: RecipeIngredient.objects.filter(...).exists()
AddOneExists(c) ==
  /\ clients[c].pc = "ao_exists"
  /\ IF PairRows(joins, clients[c].recipe_id, clients[c].entry.ingredient_id) # {}
       THEN Finish(c, Error("add_one_ingredient_to_recipe", "DUPLICATE_INGREDIENT"))
     ELSE Goto(c, "ao_create")
  /\ UNCHANGED <<store, response, request>>

\* lines 100-116: RecipeIngredient.objects.create(...), the INSERT
AddOneCreate(c) ==
  /\ clients[c].pc = "ao_create"
  /\ LET e == clients[c].entry
     IN  IF unique_together(joins, clients[c].recipe_id, e.ingredient_id)
           THEN /\ Finish(c, Error("add_one_ingredient_to_recipe", "INTERNAL_ERROR"))
                /\ UNCHANGED joins
         ELSE /\ NextId(joins) <= MaxRowId
              /\ joins' = joins \cup
                   { NewRow(joins, clients[c].recipe_id, e.ingredient_id,
                            e.quantity, e.notes) }
              /\ Finish(c, Ok("add_one_ingredient_to_recipe"))
  /\ UNCHANGED <<ingredients, recipes, response, request>>

InitConc ==
  /\ ingredients \in { {}, { [id |-> 1, name |-> <<"b">>, unit |-> <<"g">>] } }
  /\ recipes = { [id |-> 1, name |-> <<"r">>] }
  /\ joins = {}
  /\ response = NoResponse
  /\ clients = [c \in Clients |-> Idle]
  /\ request = NoRequest

NextConc ==
  \E c \in Clients :
    \/ \E input \in IngredientInput : InvokeCreateIngredient(c, input)
    \/ CreateIngredientLookup(c)
    \/ CreateIngredientClean(c)
    \/ CreateIngredientSave(c)
    \/ \E id \in IngredientIds, input \in IngredientInput :
         InvokeUpdateIngredient(c, id, input)
    \/ UpdateIngredientGet(c)
    \/ UpdateIngredientLookup(c)
    \/ UpdateIngredientClean(c)
    \/ UpdateIngredientSave(c)
    \/ \E r \in RecipeIds, e \in RecipeIngredientInput : InvokeAddOne(c, r, e)
    \/ AddOneGetRecipe(c)
    \/ AddOneGetIngredient(c)
    \/ AddOneExists(c)
    \/ AddOneCreate(c)

SpecConc == InitConc /\ [][NextConc]_vars

(***************************************************************************)
(* The authenticated GraphQL endpoint (SpecHttp): a request is received,   *)
(* the view builds its context, and only then is the operation resolved.   *)
(* The authenticator is a black box: for each request it returns a         *)
(* (user, token) pair, returns None, or raises.                            *)
(***************************************************************************)
AuthResults == { "user", "None", "raises" }

\* a get_context that lets a request with no principal through
get_context_Anonymous(auth_result) ==
  IF auth_result = "raises" THEN [raised |-> "PermissionDenied", user |-> ""]
  ELSE [raised |-> "", user |-> IF auth_result = "None" THEN "anonymous" ELSE auth_result]

\* AuthenticatedGraphQLViewMixin.get_context: the exception it raises, or the
\* user it puts on the request
get_context(auth_result) ==
  IF auth_result = "raises" THEN [raised |-> "PermissionDenied", user |-> ""]
  ELSE IF auth_result = "None" THEN [raised |-> "PermissionDenied", user |-> ""]
  ELSE [raised |-> "", user |-> auth_result]

\* Query.ingredient and Query.recipe: the row of the id, or None
query_by_id(op, table, id) == IF HasPk(table, id) THEN Ok(op) ELSE Error(op, "None")

\* the resolvers of the schema (api/schema.py): Query and Mutation
Resolve ==
  \/ \E id \in IngredientIds :
       /\ response' = query_by_id("ingredient", ingredients, id)
       /\ UNCHANGED store
  \/ \E id \in RecipeIds :
       /\ response' = query_by_id("recipe", recipes, id)
       /\ UNCHANGED store
  \/ \E input \in IngredientInput :
       Apply(create_ingredient(ingredients, recipes, joins, input))
  \/ \E id \in IngredientIds, input \in IngredientInput :
       Apply(update_ingredient(ingredients, recipes, joins, id, input))
  \/ \E id \in IngredientIds : Apply(delete_ingredient(ingredients, recipes, joins, id))
  \/ \E input \in RecipeInput : Apply(create_recipe(ingredients, recipes, joins, input))
  \/ \E r \in RecipeIds, e \in RecipeIngredientInput :
       Apply(add_one_ingredient_to_recipe(ingredients, recipes, joins, r,
                                          e.ingredient_id, e.quantity, e.notes))
  \/ \E r \in RecipeIds, i \in IngredientIds :
       Apply(remove_one_ingredient_from_recipe(ingredients, recipes, joins, r, i))
  \/ \E r \in RecipeIds : Apply(delete_recipe(ingredients, recipes, joins, r))
  \/ \E r \in RecipeIds, entries \in EntryLists :
       Apply(bulk_update_recipe_ingredients(ingredients, recipes, joins, r, entries))

\* a request reaches path("graphql/", ...); the authenticator's answer for it
\* is fixed here
HttpReceive(auth_result) ==
  /\ request.phase \in {"idle", "done", "denied"}
  /\ request' = [phase |-> "get_context", auth |-> auth_result, user |-> ""]
  /\ UNCHANGED <<store, response, clients>>

\* the view calls get_context before it executes the operation
HttpGetContext ==
  /\ request.phase = "get_context"
  /\ LET context == get_context(request.auth)
     IN  IF context.raised # ""
           THEN /\ request' = [request EXCEPT !.phase = "denied"]
                /\ response' = Raised("graphql", context.raised)
         ELSE /\ request' = [request EXCEPT !.phase = "execute", !.user = context.user]
              /\ UNCHANGED response
  /\ UNCHANGED <<store, clients>>

\* the view executes the operation with the context: one resolver runs
HttpExecute ==
  /\ request.phase = "execute"
  /\ Resolve
  /\ request' = [request EXCEPT !.phase = "done"]
  /\ UNCHANGED clients

NextHttp ==
  \/ \E auth_result \in AuthResults : HttpReceive(auth_result)
  \/ HttpGetContext
  \/ HttpExecute

SpecHttp == Init /\ [][NextHttp]_vars

(***************************************************************************)
(* The list queries (apps/ingredients/queries.py, apps/recipes/queries.py) *)
(* and the tables they list (SpecIngredientList, SpecRecipeList).  An      *)
(* Optional[str] argument is a sequence of at most one string: None is the *)
(* empty one.                                                              *)
(***************************************************************************)
MaxListed == 3

None == <<>>
Some(s) == <<s>>

\* the truth value of an Optional[str] (if search:)
Truthy(search) == search # None /\ search[1] # <<>>

CharCode(c) == CASE c = " " -> 32
                 [] c = "A" -> 65
                 [] c = "B" -> 66
                 [] c = "a" -> 97
                 [] c = "b" -> 98
                 [] OTHER -> 0

\* the engine's comparison of two names in ORDER BY name
RECURSIVE NameLess(_, _)
NameLess(a, b) ==
  IF b = <<>> THEN FALSE
  ELSE IF a = <<>> THEN TRUE
  ELSE IF CharCode(Head(a)) # CharCode(Head(b)) THEN CharCode(Head(a)) < CharCode(Head(b))
  ELSE NameLess(Tail(a), Tail(b))

\* Ingredient.Meta.ordering = ['name']: the rows as a list, by name
RECURSIVE OrderByName(_)
OrderByName(rows) ==
  IF rows = {} THEN <<>>
  ELSE LET first == CHOOSE row \in rows :
                      \A other \in rows : ~NameLess(other.name, row.name)
       IN  <<first>> \o OrderByName(rows \ { first })

\* auto_now_add: the clock reading at the INSERT.  Rows are inserted one
\* after another and a new row's primary key is above every stored one, so
\* the readings of the stored rows are ordered as their primary keys are.
created_at(row) == row.id

\* Recipe.Meta.ordering = ['-created_at']: the rows as a list, newest first
RECURSIVE OrderByNewest(_)
OrderByNewest(rows) ==
  IF rows = {} THEN <<>>
  ELSE LET first == CHOOSE row \in rows :
                      \A other \in rows : created_at(other) <= created_at(row)
       IN  <<first>> \o OrderByNewest(rows \ { first })

\* the name__icontains lookup's comparison
IContains(name, text) ==
  \E i \in 0..(Len(name) - Len(text)) :
    Lower(SubSeq(name, i + 1, i + Len(text))) = Lower(text)

\* queryset.filter(name__icontains=search) when search is given and not empty
Search(rows, search) ==
  IF Truthy(search) THEN { row \in rows : IContains(row.name, search[1]) } ELSE rows

Min(a, b) == IF a <= b THEN a ELSE b
Max(a, b) == IF a >= b THEN a ELSE b

\* list[start:stop] for start, stop >= 0
Slice(list, start, stop) == SubSeq(list, start + 1, Min(stop, Len(list)))

\* Paginator.num_pages (orphans=0, allow_empty_first_page=True):
\* ceil(max(1, count) / per_page)
num_pages(count, per_page) == (Max(1, count) + per_page - 1) \div per_page

\* Paginator.get_page(number): the page of that number, the last page for a
\* number out of range
get_page(list, per_page, number) ==
  LET last == num_pages(Len(list), per_page)
      n == IF number < 1 \/ number > last THEN last ELSE number
      bottom == (n - 1) * per_page
      top == IF bottom + per_page >= Len(list) THEN Len(list) ELSE bottom + per_page
  IN  Slice(list, bottom, top)

\* the list a query returns
Listed(op, rows) ==
  [op |-> op, success |-> TRUE, code |-> "", raised |-> FALSE, deleted |-> 0,
   rows |-> rows]

\* raise ValueError(message)
ValueError(op, message) ==
  [op |-> op, success |-> FALSE, code |-> "ValueError", raised |-> TRUE, deleted |-> 0,
   message |-> message]

PageMessage == "Page number and page size must be greater than 0."

\* a query that hands every page number to the paginator
ingredients_NoLastPageTest(rows, page, page_size, search) ==
  IF page <= 0 \/ page_size <= 0 THEN ValueError("ingredients", PageMessage)
  ELSE Listed("ingredients", get_page(OrderByName(Search(rows, search)), page_size, page))

\* a query that refuses only when both arguments are out of range
ingredients_BothTest(rows, page, page_size, search) ==
  IF page <= 0 /\ page_size <= 0 THEN ValueError("ingredients", PageMessage)
  ELSE IF page_size = 0 THEN Raised("ingredients", "ZeroDivisionError")
  ELSE IF page_size < 0 THEN Listed("ingredients", <<>>)
  ELSE Listed("ingredients", get_page(OrderByName(Search(rows, search)), page_size, page))

\* Query.ingredients
ingredients_query(rows, page, page_size, search) ==
  IF page <= 0 \/ page_size <= 0 THEN ValueError("ingredients", PageMessage)
  ELSE LET queryset == OrderByName(Search(rows, search))
       IN  IF page <= num_pages(Len(queryset), page_size)
             THEN Listed("ingredients", get_page(queryset, page_size, page))
           ELSE Listed("ingredients", <<>>)

\* a query whose slice starts one page late
recipes_FromPage(rows, page, page_size, search) ==
  LET start == page * page_size
      stop == (page + 1) * page_size
  IN  IF start < 0 \/ stop < 0 THEN Raised("recipes", "ValueError")
      ELSE Listed("recipes", Slice(OrderByNewest(Search(rows, search)), start, stop))

\* Query.recipes: the slice of the queryset; the queryset refuses a negative
\* index
recipes_query(rows, page, page_size, search) ==
  LET start == (page - 1) * page_size
      stop == page * page_size
  IN  IF start < 0 \/ stop < 0 THEN Raised("recipes", "ValueError")
      ELSE Listed("recipes", Slice(OrderByNewest(Search(rows, search)), start, stop))

ListedNames == { <<"b">>, <<"a", " ">>, <<"A", "b">> }
ListedIngredientInput == [name : ListedNames, unit : { <<"g">> }]
ListedRecipeInput ==
  [name : ListedNames, ingredients : { <<>>, <<Entry(1, 500, <<>>)>> }]
ListedIds == 1..MaxListed

PageInputs == (-1)..(MaxListed + 1)
PageSizeInputs == (-1)..MaxListed
SearchInputs == { None, Some(<<>>), Some(<<" ">>), Some(<<"B">>), Some(<<"a", "B">>) }

ApplyListed(o) ==
  /\ \A row \in o.ingredients \cup o.recipes : row.id <= MaxListed
  /\ ingredients' = o.ingredients
  /\ recipes' = o.recipes
  /\ joins' = o.joins
  /\ response' = o.response

ListedCreateIngredient(input) ==
  /\ ApplyListed(create_ingredient(ingredients, recipes, joins, input))
  /\ UNCHANGED <<clients, request>>

ListedUpdateIngredient(id, input) ==
  /\ ApplyListed(update_ingredient(ingredients, recipes, joins, id, input))
  /\ UNCHANGED <<clients, request>>

ListedDeleteIngredient(id) ==
  /\ ApplyListed(delete_ingredient(ingredients, recipes, joins, id))
  /\ UNCHANGED <<clients, request>>

ListedCreateRecipe(input) ==
  /\ ApplyListed(create_recipe(ingredients, recipes, joins, input))
  /\ UNCHANGED <<clients, request>>

ListedDeleteRecipe(id) ==
  /\ ApplyListed(delete_recipe(ingredients, recipes, joins, id))
  /\ UNCHANGED <<clients, request>>

QueryIngredients(page, page_size, search) ==
  /\ response' = ingredients_query(ingredients, page, page_size, search)
  /\ UNCHANGED <<store, clients, request>>

QueryRecipes(page, page_size, search) ==
  /\ response' = recipes_query(recipes, page, page_size, search)
  /\ UNCHANGED <<store, clients, request>>

\* the Ingredient table is written by the three ingredient mutations only
NextIngredientList ==
  \/ \E input \in ListedIngredientInput : ListedCreateIngredient(input)
  \/ \E id \in ListedIds, input \in ListedIngredientInput : ListedUpdateIngredient(id, input)
  \/ \E id \in ListedIds : ListedDeleteIngredient(id)
  \/ \E page \in PageInputs, page_size \in PageSizeInputs, search \in SearchInputs :
       QueryIngredients(page, page_size, search)

SpecIngredientList == Init /\ [][NextIngredientList]_vars

\* the Recipe table is written by create_recipe and delete_recipe only
NextRecipeList ==
  \/ \E input \in ListedRecipeInput : ListedCreateRecipe(input)
  \/ \E id \in ListedIds : ListedDeleteRecipe(id)
  \/ \E page \in PageInputs, page_size \in PageSizeInputs, search \in SearchInputs :
       QueryRecipes(page, page_size, search)

SpecRecipeList == Init /\ [][NextRecipeList]_vars

(***************************************************************************)
(* Properties of the store under one-after-another requests (Spec).        *)
(***************************************************************************)

\* C1: after any sequence of ingredient mutations from the empty store, no
\* two stored ingredients have names that are equal ignoring case.
C1_IngredientNamesUniqueIgnoringCase ==
  \A x, y \in ingredients : IExact(x.name, y.name) => x = y

\* two ingredients are stored and an update to a name another one holds in
\* another case was just refused
C1_Witness ==
  /\ Cardinality(ingredients) = 2
  /\ \E x \in ingredients : x.name = <<"A">>
  /\ response.op = "update_ingredient"
  /\ response.code = "DUPLICATE_NAME"

\* C2: no two stored recipes have names that are equal ignoring case, and a
\* create_recipe whose stripped name equals a stored recipe's name ignoring
\* case returns DUPLICATE_NAME.
C2_RecipeNamesUniqueIgnoringCase ==
  /\ \A x, y \in recipes : IExact(x.name, y.name) => x = y
  /\ \A input \in RecipeInput :
       (\E row \in recipes : IExact(row.name, Strip(input.name)))
       => LET o == create_recipe(ingredients, recipes, joins, input)
          IN  ~o.response.success /\ o.response.code = "DUPLICATE_NAME"

\* two recipes are stored, one named "R", and a create was just refused as a
\* duplicate
C2_Witness ==
  /\ Cardinality(recipes) = 2
  /\ \E x \in recipes : x.name = <<"R">>
  /\ response.op = "create_recipe"
  /\ response.code = "DUPLICATE_NAME"

\* C3: in every reachable state there is at most one RecipeIngredient row
\* for each (recipe, ingredient) pair.
C3_OneRowPerPair ==
  \A r \in RecipeIds, i \in IngredientIds : Cardinality(PairRows(joins, r, i)) <= 1

\* a recipe listing the same ingredient twice was just refused while join
\* rows are stored
C3_Witness ==
  /\ response.op = "create_recipe"
  /\ response.code = "INTERNAL_ERROR"
  /\ joins # {}

\* C4: every RecipeIngredient row refers to a stored recipe and a stored
\* ingredient.
C4_JoinRowsHaveParents ==
  \A row \in joins : HasPk(recipes, row.recipe) /\ HasPk(ingredients, row.ingredient)

\* an ingredient was just deleted together with a join row naming it
C4_Witness ==
  /\ response.op = "delete_ingredient"
  /\ response.success
  /\ response.deleted > 1

\* C5: a successful delete_ingredient(id) removes that ingredient and exactly
\* the join rows naming it, and a successful delete_recipe(id) removes that
\* recipe and exactly its join rows; everything else is unchanged.
C5_CascadeFrame ==
  [][/\ (response'.op = "delete_ingredient" /\ response'.success) =>
          \A id \in IngredientIds :
            DeleteIngredient(id)
            => /\ ingredients' = { row \in ingredients : row.id # id }
               /\ recipes' = recipes
               /\ joins' = { row \in joins : row.ingredient # id }
     /\ (response'.op = "delete_recipe" /\ response'.success) =>
          \A id \in RecipeIds :
            DeleteRecipe(id)
            => /\ recipes' = { row \in recipes : row.id # id }
               /\ ingredients' = ingredients
               /\ joins' = { row \in joins : row.recipe # id }]_vars

\* a recipe was just deleted with one join row of its own while another
\* recipe's row for the same ingredient stays
C5_Witness ==
  /\ response.op = "delete_recipe"
  /\ response.success
  /\ response.deleted = 2
  /\ joins # {}

\* C6: whenever create_recipe returns success=false, the stored recipes and
\* RecipeIngredient rows (and the ingredients) are those from before the call.
C6_CreateRecipeAllOrNothing ==
  [][(response'.op = "create_recipe" /\ ~response'.success)
     => (recipes' = recipes /\ joins' = joins /\ ingredients' = ingredients)]_vars

\* a create_recipe listing one ingredient twice just failed on the second
\* entry, after the recipe row and the first entry's join row were written,
\* and neither is stored
C6_Witness ==
  /\ response.op = "create_recipe"
  /\ ~response.success
  /\ response.code = "INTERNAL_ERROR"
  /\ recipes = {}
  /\ joins = {}

\* the entry of the list that names ingredient i last
LastEntry(entries, i) ==
  LET k == SetMax({ j \in 1..Len(entries) : entries[j].ingredient_id = i })
  IN  entries[k]

Named(entries) == { entries[j].ingredient_id : j \in 1..Len(entries) }

\* what a successful bulk_update_recipe_ingredients(r, entries) with outcome o
\* leaves alone, and that it keeps the row of a pair already linked
BulkFrame(r, entries, o) ==
  /\ o.ingredients = ingredients
  /\ o.recipes = recipes
  /\ { row \in o.joins : row.recipe # r \/ row.ingredient \notin Named(entries) }
       = { row \in joins : row.recipe # r \/ row.ingredient \notin Named(entries) }
  /\ \A i \in Named(entries) :
       \A old \in PairRows(joins, r, i) : \E new \in PairRows(o.joins, r, i) : new.id = old.id

\* C7 as written: after a successful bulk update every listed ingredient has
\* exactly one join row of the recipe, carrying the quantity and the notes of
\* the last entry naming it; the rest of the store is unchanged.
C7_BulkUpsertAsWritten ==
  \A r \in RecipeIds, entries \in EntryLists :
    LET o == bulk_update_recipe_ingredients(ingredients, recipes, joins, r, entries)
    IN  o.response.success
        => /\ BulkFrame(r, entries, o)
           /\ \A i \in Named(entries) :
                /\ Cardinality(PairRows(o.joins, r, i)) = 1
                /\ \A row \in PairRows(o.joins, r, i) :
                     /\ row.quantity = LastEntry(entries, i).quantity
                     /\ row.notes = LastEntry(entries, i).notes

\* C7, amended: the row carries the last entry's quantity rounded to two
\* decimal places and its notes stripped of surrounding whitespace.
C7_BulkUpsert ==
  \A r \in RecipeIds, entries \in EntryLists :
    LET o == bulk_update_recipe_ingredients(ingredients, recipes, joins, r, entries)
    IN  o.response.success
        => /\ BulkFrame(r, entries, o)
           /\ \A i \in Named(entries) :
                /\ Cardinality(PairRows(o.joins, r, i)) = 1
                /\ \A row \in PairRows(o.joins, r, i) :
                     /\ row.quantity = Quantize(LastEntry(entries, i).quantity)
                     /\ row.notes = Strip(LastEntry(entries, i).notes)

\* a bulk update just succeeded and the store holds a row with rounded
\* quantity and stripped notes beside a row of another recipe
C7_Witness ==
  /\ response.op = "bulk_update_recipe_ingredients"
  /\ response.success
  /\ \E row, other \in joins :
       /\ row.quantity = 120 /\ row.notes = <<"n">>
       /\ other.recipe # row.recipe

(***************************************************************************)
(* Properties under interleaved requests (SpecConc).                       *)
(***************************************************************************)

\* C8: no two ingredients share a name ignoring case in any state reachable
\* when create_ingredient and update_ingredient requests interleave.
C8_NoCaseInsensitiveDuplicates ==
  \A x \in ingredients : \A y \in ingredients \ {x} : Lower(x.name) # Lower(y.name)

\* the add_one_ingredient_to_recipe requests for the pair (r, i) that found
\* both the recipe and the ingredient and have returned
AddsDone(r, i) ==
  { c \in Clients :
      /\ clients[c].pc = "done"
      /\ clients[c].op = "add_one_ingredient_to_recipe"
      /\ clients[c].recipe_id = r
      /\ clients[c].entry.ingredient_id = i
      /\ clients[c].result.code # "NOT_FOUND" }

\* C9: of the interleaved add_one_ingredient_to_recipe requests for one pair
\* (recipe and ingredient stored, no join row at the start), at most one join
\* row for the pair exists, exactly one request returns success=true and every
\* other one returns success=false with an error code.
C9_OneAddWins ==
  \A r \in RecipeIds, i \in IngredientIds :
    LET done == AddsDone(r, i)
        won == { c \in done : clients[c].result.success }
    IN  /\ Cardinality(PairRows(joins, r, i)) <= 1
        /\ Cardinality(won) <= 1
        /\ Cardinality(done) >= 2 => Cardinality(won) = 1
        /\ \A c \in done \ won :
             /\ ~clients[c].result.raised
             /\ clients[c].result.code \in {"DUPLICATE_INGREDIENT", "INTERNAL_ERROR"}

\* two requests for the same pair both passed the existence check; one
\* inserted the row, the other was refused by the store
C9_Witness ==
  \E c, d \in Clients :
    /\ c # d
    /\ {c, d} \subseteq AddsDone(1, 1)
    /\ clients[c].result.success
    /\ clients[d].result.code = "INTERNAL_ERROR"
    /\ Cardinality(joins) = 1

(***************************************************************************)
(* Properties of the endpoint (SpecHttp).                                  *)
(***************************************************************************)

\* C10: no resolver runs for a request unless the authenticator returned a
\* principal for it first; when the authenticator returns nothing or raises,
\* the request ends with PermissionDenied, no resolver having run and the
\* store unchanged.
C10_ResolversNeedPrincipal ==
  /\ [](request.phase \in {"execute", "done"}
        => (request.auth = "user" /\ request.user = "user"))
  /\ [][(store' # store \/ (request.phase # "done" /\ request'.phase = "done"))
        => (request.phase = "execute" /\ request.auth = "user")]_vars
  /\ [][(request.phase = "get_context" /\ request.auth \in {"None", "raises"})
        => /\ request'.phase = "denied"
           /\ response' = Raised("graphql", "PermissionDenied")
           /\ UNCHANGED store]_vars
  /\ [][request.phase = "denied" => (UNCHANGED store /\ request'.phase # "execute")]_vars

\* a request whose authenticator returned None was denied while the store
\* holds rows that earlier, authenticated requests wrote
C10_Witness ==
  /\ request.phase = "denied"
  /\ request.auth = "None"
  /\ response = Raised("graphql", "PermissionDenied")
  /\ joins # {}

(***************************************************************************)
(* Properties of the list queries (SpecIngredientList, SpecRecipeList).    *)
(***************************************************************************)

\* the lists that hold every row of S once
Enumerations(S) ==
  { L \in [1..Cardinality(S) -> S] : \A i, j \in 1..Cardinality(S) : L[i] = L[j] => i = j }

\* whether the name holds the text somewhere, letter case aside
ContainsIgnoringCase(name, text) ==
  \E i \in 0..Len(name) :
    /\ i + Len(text) <= Len(name)
    /\ \A k \in 1..Len(text) : LowerChar(name[i + k]) = LowerChar(text[k])

\* the rows a search is about: all of them when it is absent or empty
Matching(rows, search) ==
  IF search = None \/ search = Some(<<>>) THEN rows
  ELSE { row \in rows : ContainsIgnoringCase(row.name, search[1]) }

NameOrdered(S) ==
  CHOOSE L \in Enumerations(S) :
    \A i, j \in 1..Len(L) : i < j => NameLess(L[i].name, L[j].name)

NewestFirst(S) ==
  CHOOSE L \in Enumerations(S) :
    \A i, j \in 1..Len(L) : i < j => created_at(L[i]) > created_at(L[j])

\* the elements of L at the positions (page-1)*page_size .. page*page_size-1,
\* counted from 0
PageOf(L, page, page_size) ==
  LET lo == (page - 1) * page_size
      hi == page * page_size - 1
      n == Cardinality({ p \in 0..(Len(L) - 1) : lo <= p /\ p <= hi })
  IN  [k \in 1..n |-> L[lo + k]]

Elements(L) == { L[k] : k \in 1..Len(L) }

\* the answers to pages 1..n of the ingredients query, one after another
RECURSIVE IngredientPages(_, _, _)
IngredientPages(n, page_size, search) ==
  IF n = 0 THEN <<>>
  ELSE IngredientPages(n - 1, page_size, search)
         \o ingredients_query(ingredients, n, page_size, search).rows

\* the answers to pages 1..n of the recipes query, one after another
RECURSIVE RecipePages(_, _, _)
RecipePages(n, page_size, search) ==
  IF n = 0 THEN <<>>
  ELSE RecipePages(n - 1, page_size, search)
         \o recipes_query(recipes, n, page_size, search).rows

\* C11: for page >= 1 and page_size >= 1 the ingredients query returns the
\* elements at positions (page-1)*page_size .. page*page_size-1 of the
\* name-ordered list of the ingredients matching the search, the empty list
\* beyond the last page; the pages are pairwise disjoint and their
\* concatenation is the whole filtered list.
C11_IngredientPages ==
  \A page_size \in PageSizeInputs, search \in SearchInputs :
    page_size >= 1 =>
      LET L == NameOrdered(Matching(ingredients, search))
          answer(page) == ingredients_query(ingredients, page, page_size, search)
          pages == { page \in PageInputs : page >= 1 }
      IN  /\ \A page \in pages :
                /\ answer(page) = Listed("ingredients", PageOf(L, page, page_size))
                /\ (page - 1) * page_size >= Len(L) => answer(page).rows = <<>>
          /\ \A p, q \in pages :
                p # q => Elements(answer(p).rows) \cap Elements(answer(q).rows) = {}
          /\ IngredientPages(MaxListed + 1, page_size, search) = L

\* three ingredients are stored and the query just returned the one that
\* sorts last alone: a page after the first
C11_Witness ==
  /\ Cardinality(ingredients) = 3
  /\ response.op = "ingredients"
  /\ response.success
  /\ Len(response.rows) = 1
  /\ response.rows[1].name = <<"b">>

\* C12: for page >= 1 and page_size >= 1 the recipes query returns the
\* elements at positions (page-1)*page_size .. page*page_size-1 of the
\* newest-first list of the recipes matching the search, the empty list
\* beyond the end; the pages are pairwise disjoint and their concatenation is
\* the whole filtered list.
C12_RecipePages ==
  \A page_size \in PageSizeInputs, search \in SearchInputs :
    page_size >= 1 =>
      LET L == NewestFirst(Matching(recipes, search))
          answer(page) == recipes_query(recipes, page, page_size, search)
          pages == { page \in PageInputs : page >= 1 }
      IN  /\ \A page \in pages :
                /\ answer(page) = Listed("recipes", PageOf(L, page, page_size))
                /\ (page - 1) * page_size >= Len(L) => answer(page).rows = <<>>
          /\ \A p, q \in pages :
                p # q => Elements(answer(p).rows) \cap Elements(answer(q).rows) = {}
          /\ RecipePages(MaxListed + 1, page_size, search) = L

\* three recipes are stored and the query just returned the oldest of them
\* alone: a page after the first
C12_Witness ==
  /\ Cardinality(recipes) = 3
  /\ response.op = "recipes"
  /\ response.success
  /\ Len(response.rows) = 1
  /\ \A row \in recipes : response.rows[1].id <= row.id

\* C13: the ingredients query called with page <= 0 or page_size <= 0 fails
\* with 'Page number and page size must be greater than 0.' and returns no
\* list, whatever the stored ingredients and the search text.
C13_PageArgumentsRefused ==
  /\ \A page \in PageInputs, page_size \in PageSizeInputs, search \in SearchInputs :
       (page <= 0 \/ page_size <= 0) =>
         LET answer == ingredients_query(ingredients, page, page_size, search)
         IN  /\ answer.raised
             /\ answer.code = "ValueError"
             /\ answer.message = "Page number and page size must be greater than 0."
             /\ "rows" \notin DOMAIN answer
  /\ (response.op = "ingredients" /\ response.raised) => "rows" \notin DOMAIN response

\* the query was just refused while ingredients are stored
C13_Witness ==
  /\ response.op = "ingredients"
  /\ response.raised
  /\ response.code = "ValueError"
  /\ Cardinality(ingredients) = 3

(***************************************************************************)
(* Properties of the mutations' results and frames (Spec).                 *)
(***************************************************************************)

\* what a successful create_recipe(input) with outcome o requires and leaves,
\* apart from the values its join rows carry
CreateRecipeShape(input, o) ==
  LET name == Strip(input.name)
      entries == input.ingredients
  IN  /\ name # <<>>
      /\ \A row \in recipes : Lower(row.name) # Lower(name)
      /\ \A k \in 1..Len(entries) : \E row \in ingredients : row.id = entries[k].ingredient_id
      /\ \A j, k \in 1..Len(entries) :
           entries[j].ingredient_id = entries[k].ingredient_id => j = k
      /\ o.ingredients = ingredients
      /\ recipes \subseteq o.recipes
      /\ joins \subseteq o.joins
      /\ Cardinality(o.recipes \ recipes) = 1
      /\ \A new \in o.recipes \ recipes :
           /\ new.name = name
           /\ new.id \notin Ids(recipes)
           /\ \A row \in o.joins \ joins : row.recipe = new.id
           /\ Cardinality(o.joins \ joins) = Len(entries)
           /\ ingredient_count(o.joins, new.id) = Len(entries)

\* C14 as written: create_recipe succeeds only for a non-empty, unused
\* stripped name and ingredient IDs that exist and occur once; then exactly
\* one recipe is new, with one join row per entry carrying the entry's
\* ingredient, quantity and stripped notes, and its ingredient count is the
\* length of the list.
C14_CreateRecipeAsWritten ==
  \A input \in RecipeInput :
    LET o == create_recipe(ingredients, recipes, joins, input)
    IN  o.response.success
        => /\ CreateRecipeShape(input, o)
           /\ \A k \in 1..Len(input.ingredients) :
                Cardinality({ row \in o.joins \ joins :
                                /\ row.ingredient = input.ingredients[k].ingredient_id
                                /\ row.quantity = input.ingredients[k].quantity
                                /\ row.notes = Strip(input.ingredients[k].notes) }) = 1

\* C14, amended: the join row carries the entry's quantity rounded to two
\* decimal places.
C14_CreateRecipe ==
  \A input \in RecipeInput :
    LET o == create_recipe(ingredients, recipes, joins, input)
    IN  o.response.success
        => /\ CreateRecipeShape(input, o)
           /\ \A k \in 1..Len(input.ingredients) :
                Cardinality({ row \in o.joins \ joins :
                                /\ row.ingredient = input.ingredients[k].ingredient_id
                                /\ row.quantity = Quantize(input.ingredients[k].quantity)
                                /\ row.notes = Strip(input.ingredients[k].notes) }) = 1

\* a recipe was just created with two entries, one of them with notes to
\* strip and a quantity to round
C14_Witness ==
  /\ response.op = "create_recipe"
  /\ response.success
  /\ \E r \in recipes :
       /\ ingredient_count(joins, r.id) = 2
       /\ \E row \in joins :
            row.recipe = r.id /\ row.quantity = 120 /\ row.notes = <<"n">>

\* whether outcome o failed with one of the codes and left the store as it is
\* (TRUE for an outcome that did not fail with one of them)
RefusedUnchanged(o, codes) ==
  (~o.response.success /\ ~o.response.raised /\ o.response.code \in codes)
  => (o.ingredients = ingredients /\ o.recipes = recipes /\ o.joins = joins)

\* C15: a mutation that returns success=false with a validation or lookup
\* code leaves the whole store unchanged: create_ingredient (EMPTY_FIELD,
\* DUPLICATE_NAME), update_ingredient (NOT_FOUND, EMPTY_NAME, DUPLICATE_NAME),
\* delete_ingredient (NOT_FOUND), add_one_ingredient_to_recipe (NOT_FOUND,
\* DUPLICATE_INGREDIENT), remove_one_ingredient_from_recipe (NOT_FOUND, for a
\* missing recipe, a missing ingredient or a pair that is not linked) and
\* delete_recipe (NOT_FOUND).
C15_RefusalsWriteNothing ==
  /\ \A input \in IngredientInput :
       RefusedUnchanged(create_ingredient(ingredients, recipes, joins, input),
                        {"EMPTY_FIELD", "DUPLICATE_NAME"})
  /\ \A id \in IngredientIds, input \in IngredientInput :
       RefusedUnchanged(update_ingredient(ingredients, recipes, joins, id, input),
                        {"NOT_FOUND", "EMPTY_NAME", "DUPLICATE_NAME"})
  /\ \A id \in IngredientIds :
       RefusedUnchanged(delete_ingredient(ingredients, recipes, joins, id), {"NOT_FOUND"})
  /\ \A r \in RecipeIds, e \in RecipeIngredientInput :
       RefusedUnchanged(
         add_one_ingredient_to_recipe(ingredients, recipes, joins, r,
                                      e.ingredient_id, e.quantity, e.notes),
         {"NOT_FOUND", "DUPLICATE_INGREDIENT"})
  /\ \A r \in RecipeIds, i \in IngredientIds :
       LET o == remove_one_ingredient_from_recipe(ingredients, recipes, joins, r, i)
           missing == \/ \A row \in recipes : row.id # r
                      \/ \A row \in ingredients : row.id # i
                      \/ \A row \in joins : row.recipe # r \/ row.ingredient # i
       IN  /\ RefusedUnchanged(o, {"NOT_FOUND"})
           /\ missing => (~o.response.success /\ o.response.code = "NOT_FOUND")
  /\ \A r \in RecipeIds :
       RefusedUnchanged(delete_recipe(ingredients, recipes, joins, r), {"NOT_FOUND"})
  /\ (/\ ~response.success
      /\ response.op \in {"create_ingredient", "update_ingredient", "delete_ingredient",
                          "add_one_ingredient_to_recipe",
                          "remove_one_ingredient_from_recipe", "delete_recipe"})
     => \/ response.raised
        \/ response.code \in {"EMPTY_FIELD", "DUPLICATE_NAME", "NOT_FOUND", "EMPTY_NAME",
                              "DUPLICATE_INGREDIENT", "DATABASE_ERROR", "INTERNAL_ERROR"}

\* a remove of a pair that is not linked was just refused: both recipes and
\* both ingredients are stored, and so are join rows
C15_Witness ==
  /\ response.op = "remove_one_ingredient_from_recipe"
  /\ response.code = "NOT_FOUND"
  /\ Cardinality(recipes) = 2
  /\ Cardinality(ingredients) = 2
  /\ joins # {}

\* C16: bulk_update_recipe_ingredients is all-or-nothing: whenever it returns
\* success=false (unknown recipe, or any entry naming an ingredient ID that
\* does not exist, wherever it stands in the list), the RecipeIngredient rows
\* are exactly those from before the call.
C16_BulkAllOrNothing ==
  [][(response'.op = "bulk_update_recipe_ingredients" /\ ~response'.success)
     => joins' = joins]_vars

\* C17: every call of create_ingredient, update_ingredient or
\* delete_ingredient ends by returning an IngredientResponse; none ends with
\* an exception escaping the mutation, also for a blank unit or a name longer
\* than 100 characters.
C17_IngredientMutationsReturn ==
  response.op \in {"create_ingredient", "update_ingredient", "delete_ingredient"}
  => ~response.raised

\* the ingredients other than id that hold the name, letter case aside
OthersNamed(id, name) ==
  { row \in ingredients : row.id # id /\ Lower(row.name) = Lower(name) }

\* DUPLICATE_NAME exactly when another ingredient holds the name, and what a
\* successful update(id, input) with outcome o changes
UpdateNameAndFrame(id, input, o) ==
  LET name == Strip(input.name)
  IN  /\ (~o.response.success /\ o.response.code = "DUPLICATE_NAME")
         <=> OthersNamed(id, name) # {}
      /\ o.response.success
         => /\ { row \in o.ingredients : row.id # id }
                 = { row \in ingredients : row.id # id }
            /\ \E row \in o.ingredients : row.id = id /\ row.name = name
            /\ Cardinality(o.ingredients) = Cardinality(ingredients)
            /\ o.recipes = recipes
            /\ o.joins = joins

\* C18 as written: update_ingredient(id, input) succeeds when the stripped
\* new name equals, or differs only in letter case from, the current name of
\* ingredient id and no other ingredient has it ignoring case; it returns
\* DUPLICATE_NAME exactly when another ingredient has it; a successful update
\* changes only ingredient id.
C18_UpdateAsWritten ==
  \A current \in ingredients, input \in IngredientInput :
    LET id == current.id
        name == Strip(input.name)
        o == update_ingredient(ingredients, recipes, joins, id, input)
    IN  /\ (Lower(name) = Lower(current.name) /\ OthersNamed(id, name) = {})
           => o.response.success
        /\ UpdateNameAndFrame(id, input, o)

\* C18, amended: the update succeeds under those conditions when, in
\* addition, the stripped unit is non-empty and fits its column.
C18_Update ==
  \A current \in ingredients, input \in IngredientInput :
    LET id == current.id
        name == Strip(input.name)
        unit == Strip(input.unit)
        o == update_ingredient(ingredients, recipes, joins, id, input)
    IN  /\ (/\ Lower(name) = Lower(current.name)
            /\ OthersNamed(id, name) = {}
            /\ unit # <<>>
            /\ Len(unit) <= IngredientUnitMaxLength)
           => o.response.success
        /\ UpdateNameAndFrame(id, input, o)

\* an update just succeeded; the ingredient named "A" has a join row, and
\* another ingredient is stored
C18_Witness ==
  /\ response.op = "update_ingredient"
  /\ response.success
  /\ Cardinality(ingredients) = 2
  /\ \E x \in ingredients :
       /\ x.name = <<"A">>
       /\ \E row \in joins : row.ingredient = x.id

\* C19: in every state reachable through create_ingredient and
\* update_ingredient every stored ingredient has a non-empty name without
\* leading or trailing whitespace and a non-empty, lower-case unit without
\* leading or trailing whitespace; update_ingredient never stores an empty
\* unit.
C19_StoredFieldsNormal ==
  \A row \in ingredients :
    /\ row.name # <<>>
    /\ ~IsSpace(row.name[1]) /\ ~IsSpace(row.name[Len(row.name)])
    /\ row.unit # <<>>
    /\ ~IsSpace(row.unit[1]) /\ ~IsSpace(row.unit[Len(row.unit)])
    /\ \A k \in 1..Len(row.unit) : LowerChar(row.unit[k]) = row.unit[k]

\* an update with a blank unit was just refused by the model validation while
\* ingredients are stored
C19_Witness ==
  /\ response.op = "update_ingredient"
  /\ response.raised
  /\ response.code = "ValidationError"
  /\ Cardinality(ingredients) = 2

====
